---- MODULE Spec2Model ----
(***************************************************************************)
(* Model of the Zi Wei Dou Shu natal chart CLI (jamiblossum):              *)
(*   src/time.py    parse_hhmm, time_to_index, hhmm_to_index               *)
(*   src/ziwei.py   normalize_gender, _call_astro, create_chart            *)
(*   src/main.py    run_selftest, main                                     *)
(*   src/render.py  to_data, render_chart, render_text, write_json         *)
(* The external chart engine (iztro_py.astro) is a black box: an entry     *)
(* point is described by the keyword names its signature accepts and by    *)
(* what its body does once the signature matched.                          *)
(***************************************************************************)
EXTENDS Integers, Sequences, FiniteSets, TLC

VARIABLES
    hour, minute, tResult,      \* time_to_index: its arguments and its outcome
    gValue, gResult,            \* normalize_gender: its argument and its outcome
    pc,                         \* position of the CLI invocation
    entry,                      \* which entry point runs: main, run_selftest, create_chart
    args,                       \* parsed command-line arguments (argparse namespace)
    req,                        \* the ChartRequest
    astro,                      \* the resolved engine entry point
    posargs,                    \* positional arguments create_chart hands to _call_astro
    kwargs,                     \* keyword arguments create_chart hands to _call_astro
    idx,                        \* _call_astro: position in optional_keys
    exc,                        \* _call_astro: the failure bound by `except TypeError as exc`
    calls,                      \* every call made to the engine entry point, in order
    chart,                      \* the chart the engine returned
    data,                       \* to_data(chart)
    out,                        \* the rendered text
    trace,                      \* the steps of main after create_chart, in order
    stdout,                     \* what was written to standard output
    error                       \* the failure that ended the invocation, if any

timeVars   == <<hour, minute, tResult>>
genderVars == <<gValue, gResult>>
cliVars    == <<pc, entry, args, req, astro, posargs, kwargs, idx, exc, calls, chart,
                data, out, trace, stdout, error>>
vars       == <<hour, minute, tResult, gValue, gResult, pc, entry, args, req, astro,
                posargs, kwargs, idx, exc, calls, chart, data, out, trace, stdout, error>>

-----------------------------------------------------------------------------
(* Bounds of the model *)

\* longest string over GenderAlphabet given to normalize_gender
MaxLen == 3
\* how far beyond the valid ranges the hour, minute and time index inputs reach
Margin == 1

-----------------------------------------------------------------------------
(* Python values and outcomes *)

\* a str is a sequence of characters; None is a value of its own
Str(s)  == [tag |-> "str", v |-> s]
None    == [tag |-> "None", v |-> <<>>]

\* the outcome of a call: a returned value or a raised exception
Return(v)        == [ok |-> TRUE, v |-> v, type |-> "", msg |-> ""]
Raise(type, msg) == [ok |-> FALSE, v |-> 0, type |-> type, msg |-> msg]
NotRun           == [ok |-> FALSE, v |-> 0, type |-> "", msg |-> "not run"]
Ran(r)           == r.msg # "not run"
Returns(r, v)    == r.ok /\ r.v = v
Raises(r, type, msg) == ~r.ok /\ r.type = type /\ r.msg = msg

-----------------------------------------------------------------------------
(* src/time.py *)

\* time_to_index with hour 0 put in bucket 0, like hour 23
time_to_index_late_rat(h, m) ==
    IF ~(0 <= h /\ h <= 23) THEN Raise("ValueError", "hour must be 0..23")
    ELSE IF ~(0 <= m /\ m <= 59) THEN Raise("ValueError", "minute must be 0..59")
    ELSE IF h = 23 THEN Return(0)
    ELSE IF h = 0 THEN Return(0)
    ELSE Return(((h - 1) \div 2) + 1)

\* time_to_index with the two-hour buckets starting at the even hours
time_to_index_round_up(h, m) ==
    IF ~(0 <= h /\ h <= 23) THEN Raise("ValueError", "hour must be 0..23")
    ELSE IF ~(0 <= m /\ m <= 59) THEN Raise("ValueError", "minute must be 0..59")
    ELSE IF h = 23 THEN Return(0)
    ELSE IF h = 0 THEN Return(12)
    ELSE Return((h \div 2) + 1)

\* time_to_index(hour, minute), lines 38-61
time_to_index(h, m) ==
    IF ~(0 <= h /\ h <= 23) THEN Raise("ValueError", "hour must be 0..23")
    ELSE IF ~(0 <= m /\ m <= 59) THEN Raise("ValueError", "minute must be 0..59")
    ELSE IF h = 23 THEN Return(0)
    ELSE IF h = 0 THEN Return(12)
    ELSE Return(((h - 1) \div 2) + 1)

\* A time text is modelled after text.strip().split(":"): the sequence of its
\* parts, each part a number (int(part) succeeds) or not (int(part) raises).
Num(n) == [num |-> TRUE, n |-> n]
NaN    == [num |-> FALSE, n |-> 0]

\* parse_hhmm(value), lines 12-35; value is None or Str(parts)
parse_hhmm(value) ==
    IF value = None THEN Raise("ValueError", "time is required")
    ELSE LET parts == value.v IN
        IF Len(parts) # 2 THEN Raise("ValueError", "time must be in HH:MM format")
        ELSE IF ~(parts[1].num /\ parts[2].num)
            THEN Raise("ValueError", "time must be numeric HH:MM")
        ELSE IF ~(0 <= parts[1].n /\ parts[1].n <= 23)
            THEN Raise("ValueError", "hour must be 0..23")
        ELSE IF ~(0 <= parts[2].n /\ parts[2].n <= 59)
            THEN Raise("ValueError", "minute must be 0..59")
        ELSE Return([hour |-> parts[1].n, minute |-> parts[2].n])

\* hhmm_to_index(value), lines 64-66
hhmm_to_index(value) ==
    LET t == parse_hhmm(value) IN
        IF t.ok THEN time_to_index(t.v.hour, t.v.minute) ELSE t

-----------------------------------------------------------------------------
(* src/ziwei.py: normalize_gender *)

\* characters str.strip() removes (those the inputs use)
Whitespace == {" ", "\t", "\n"}
\* the cased letters the inputs use, in both cases
UpperCase  == <<"A", "E", "F", "L", "M", "N", "O", "W">>
LowerCase  == <<"a", "e", "f", "l", "m", "n", "o", "w">>

\* str.lower() on one character; characters without case are left alone
LowerChar(c) ==
    IF \E i \in 1..Len(UpperCase) : UpperCase[i] = c
    THEN LowerCase[CHOOSE i \in 1..Len(UpperCase) : UpperCase[i] = c]
    ELSE c

\* str.lower()
lower(s) == [i \in 1..Len(s) |-> LowerChar(s[i])]

RECURSIVE lstrip(_)
lstrip(s) == IF s # <<>> /\ Head(s) \in Whitespace THEN lstrip(Tail(s)) ELSE s

RECURSIVE rstrip(_)
rstrip(s) ==
    IF s # <<>> /\ s[Len(s)] \in Whitespace THEN rstrip(SubSeq(s, 1, Len(s) - 1)) ELSE s

\* str.strip()
strip(s) == rstrip(lstrip(s))

\* the token sets of lines 30-31; Hangul and Han characters are named by code point
\* (U+B0A8 nam, U+C790 ja, U+C131 seong, U+C5EC yeo, U+7537 male, U+5973 female)
male ==
    { <<"m">>, <<"m", "a", "l", "e">>, <<"m", "a", "n">>,
      <<"U+B0A8">>, <<"U+B0A8", "U+C790">>, <<"U+B0A8", "U+C131">>, <<"U+7537">> }
female ==
    { <<"f">>, <<"f", "e", "m", "a", "l", "e">>, <<"w", "o", "m", "a", "n">>,
      <<"U+C5EC">>, <<"U+C5EC", "U+C790">>, <<"U+C5EC", "U+C131">>, <<"U+5973">> }

MaleToken   == <<"U+7537">>
FemaleToken == <<"U+5973">>
GenderRequiredMsg == "gender is required"
GenderUnknownMsg  == "gender must be one of: male/female, U+B0A8/U+C5EC"

\* normalize_gender without the strip() of line 28
normalize_gender_no_strip(value) ==
    IF value = None THEN Raise("ValueError", GenderRequiredMsg)
    ELSE LET v == lower(value.v) IN
        IF v \in male THEN Return(MaleToken)
        ELSE IF v \in female THEN Return(FemaleToken)
        ELSE Raise("ValueError", GenderUnknownMsg)

\* normalize_gender(value), lines 21-38
normalize_gender(value) ==
    IF value = None THEN Raise("ValueError", GenderRequiredMsg)
    ELSE LET v == lower(strip(value.v)) IN
        IF v \in male THEN Return(MaleToken)
        ELSE IF v \in female THEN Return(FemaleToken)
        ELSE Raise("ValueError", GenderUnknownMsg)

-----------------------------------------------------------------------------
(* src/ziwei.py: ChartRequest, the engine, create_chart *)

\* ChartRequest, lines 10-18
ChartRequest(calendar, date, time_index, gender, language, is_leap_month, fix_leap) ==
    [calendar |-> calendar, date |-> date, time_index |-> time_index, gender |-> gender,
     language |-> language, is_leap_month |-> is_leap_month, fix_leap |-> fix_leap]

NoReq == ChartRequest("", None, 0, None, "", FALSE, FALSE)

\* optional_keys, line 51
optional_keys == <<"language", "fix_leap", "fixLeap", "is_leap_month", "isLeapMonth">>

Keys == {optional_keys[i] : i \in 1..Len(optional_keys)}

\* An engine entry point: the keyword names its signature accepts, and what its body
\* does on a call its signature accepts: return a chart ("ok"), raise TypeError, or
\* raise another exception ("Error": a date the engine rejects, ...).
Engines  == [accepted : SUBSET Keys, body : {"ok", "TypeError", "Error"}]
NoEngine == [name |-> "None", accepted |-> {}, body |-> "none"]

\* fn(*args, **kw): a keyword the signature does not accept raises TypeError
CallEngine(e, kw) == IF DOMAIN kw \subseteq e.accepted THEN e.body ELSE "TypeError"

\* the names iztro_py.astro may export, by version
ExportedNames ==
    { {}, {"by_solar", "by_lunar"}, {"bySolar", "byLunar"}, {"bySolar", "by_lunar"} }

\* getattr(astro, a, None) or getattr(astro, b, None), lines 83-84
Resolve(exported, a, b) ==
    IF a \in exported THEN a ELSE IF b \in exported THEN b ELSE "None"

PyBool(b) == IF b THEN "True" ELSE "False"

\* kwargs of a solar request, lines 91-95
SolarKwargs(r) ==
    [k \in {"language", "fix_leap", "fixLeap"} |->
        IF k = "language" THEN r.language ELSE PyBool(r.fix_leap)]

\* kwargs of a lunar request, lines 102-108
LunarKwargs(r) ==
    [k \in {"language", "is_leap_month", "isLeapMonth", "fix_leap", "fixLeap"} |->
        IF k = "language" THEN r.language
        ELSE IF k \in {"is_leap_month", "isLeapMonth"} THEN PyBool(r.is_leap_month)
        ELSE PyBool(r.fix_leap)]

\* the range check with its upper end off by one
ValidTimeIndexUpTo13(t) == 0 <= t /\ t <= 13

\* the range check of line 70
ValidTimeIndex(t) == 0 <= t /\ t <= 12

\* create_chart(req) up to its call of _call_astro, lines 69-111: the failure it
\* raises, or the entry point and the arguments it hands to _call_astro.
\* installed: `from iztro_py import astro` succeeds; exported: the names astro has.
create_chart(r, installed, exported) ==
    IF ~ValidTimeIndex(r.time_index) THEN Raise("ValueError", "timeIndex must be 0..12")
    ELSE LET gender == normalize_gender(r.gender) IN
        IF ~gender.ok THEN gender
        ELSE IF ~installed THEN Raise("RuntimeError", "Missing dependency: iztro-py")
        ELSE LET by_solar == Resolve(exported, "by_solar", "bySolar")
                 by_lunar == Resolve(exported, "by_lunar", "byLunar")
             IN IF r.calendar = "solar" THEN
                    IF by_solar = "None"
                    THEN Raise("RuntimeError", "iztro-py astro.by_solar() not found")
                    ELSE Return([fn |-> by_solar,
                                 args |-> <<r.date, r.time_index, gender.v>>,
                                 kwargs |-> SolarKwargs(r)])
                ELSE IF r.calendar = "lunar" THEN
                    IF by_lunar = "None"
                    THEN Raise("RuntimeError", "iztro-py astro.by_lunar() not found")
                    ELSE Return([fn |-> by_lunar,
                                 args |-> <<r.date, r.time_index, gender.v>>,
                                 kwargs |-> LunarKwargs(r)])
                ELSE Raise("ValueError", "unsupported calendar")

-----------------------------------------------------------------------------
(* src/render.py *)

\* A chart object of the engine, by what the program reads from it:
\*   isNone        the engine returned None
\*   export        how to_data can export it: "model_dump", "dict", "__dict__", "none"
\*   exportRaises  the export method raises
\*   renders       render_chart's reads of it (get_soul_palace, translate_*) succeed
\*   palaces       its palaces: "twelve" well-formed entries, "absent", or "malformed"
\*                 (star lists that hold something other than mappings)
\*   echo          solar_date and time_range are those of the selftest request
Chart(isNone, export, exportRaises, renders, palaces, echo) ==
    [isNone |-> isNone, export |-> export, exportRaises |-> exportRaises,
     renders |-> renders, palaces |-> palaces, echo |-> echo]

NoChart   == Chart(TRUE, "unset", FALSE, TRUE, "absent", FALSE)
NoneChart == Chart(TRUE, "none", FALSE, TRUE, "absent", FALSE)

Charts ==
    { NoneChart, Chart(FALSE, "none", FALSE, TRUE, "absent", FALSE),
      Chart(FALSE, "model_dump", TRUE, TRUE, "absent", FALSE),
      Chart(FALSE, "dict", TRUE, TRUE, "absent", FALSE),
      Chart(FALSE, "dict", FALSE, TRUE, "twelve", TRUE),
      Chart(FALSE, "__dict__", FALSE, TRUE, "twelve", TRUE) }
    \cup { Chart(FALSE, "model_dump", FALSE, r, p, p = "twelve" /\ e) :
              r \in BOOLEAN, p \in {"twelve", "absent", "malformed"}, e \in BOOLEAN }

NoData == [palaces |-> "unset", echo |-> FALSE]

\* to_data(chart), lines 7-29
to_data(c) ==
    IF c.isNone THEN Raise("ValueError", "chart is None")
    ELSE IF c.export = "model_dump" THEN
        IF c.exportRaises THEN Raise("Exception", "model_dump")
        ELSE Return([palaces |-> c.palaces, echo |-> c.echo])
    ELSE IF c.export = "dict" THEN
        IF c.exportRaises THEN Raise("Exception", "dict")
        ELSE Return([palaces |-> c.palaces, echo |-> c.echo])
    ELSE IF c.export = "__dict__" THEN Return([palaces |-> c.palaces, echo |-> c.echo])
    ELSE Raise("TypeError", "chart object is not serializable")

\* render_chart(chart, language), lines 75-137: the localized text, or whatever the
\* chart's lookup and translation methods raise
render_chart(c, language) ==
    IF c.renders THEN Return("localized") ELSE Raise("Exception", "render_chart")

\* render_text(data), lines 140-199: the canonical text; _format_star (line 33) and
\* line 190 call .get on every star entry, which raises on a non-mapping
render_text(d) ==
    IF d.palaces = "malformed" THEN Raise("AttributeError", "object has no attribute get")
    ELSE Return("canonical")

\* write_json(data, path), lines 202-205: ioOk is whether open and write succeed
write_json(d, ioOk) ==
    IF ioOk THEN Return("written") ELSE Raise("OSError", "write_json")

-----------------------------------------------------------------------------
(* src/main.py *)

IntArg(n) == [given |-> TRUE, n |-> n]
NoIntArg  == [given |-> FALSE, n |-> 0]

\* `not value` for a str or None
Not(value) == value = None \/ value.v = <<>>

\* the argparse namespace, lines 20-54
Args(selftest, calendar, date, time, time_index, gender, language, leap_month, fix_leap, json_path) ==
    [selftest |-> selftest, calendar |-> calendar, date |-> date, time |-> time,
     time_index |-> time_index, gender |-> gender, language |-> language,
     leap_month |-> leap_month, fix_leap |-> fix_leap, json_path |-> json_path]

NoArgs == Args(FALSE, "solar", None, None, NoIntArg, None, "ko-KR", FALSE, TRUE, FALSE)

\* the request of run_selftest, lines 59-67
SelftestDate == Str(<<"2000-8-16">>)
SelftestRequest ==
    ChartRequest("solar", SelftestDate, 2, Str(<<"m", "a", "l", "e">>), "zh-CN",
                 FALSE, TRUE)

\* main up to its call of create_chart, lines 79-106: the request, or the failure
main_request(a) ==
    IF a.selftest THEN Return(SelftestRequest)
    ELSE IF Not(a.date) THEN Raise("SystemExit", "--date is required (unless --selftest)")
    ELSE IF Not(a.gender)
        THEN Raise("SystemExit", "--gender is required (unless --selftest)")
    ELSE IF ~a.time_index.given /\ Not(a.time)
        THEN Raise("SystemExit", "--time or --time-index is required (unless --selftest)")
    ELSE LET time_index == IF a.time_index.given THEN Return(a.time_index.n)
                           ELSE hhmm_to_index(a.time)
         IN IF ~time_index.ok THEN time_index
            ELSE Return(ChartRequest(a.calendar, a.date, time_index.v, a.gender,
                                     a.language, a.leap_month, a.fix_leap))

\* the asserts of run_selftest, lines 71-73
selftest_asserts(d) == d.echo /\ d.palaces \in {"twelve", "malformed"}

-----------------------------------------------------------------------------
(* Failures, and the inputs of one invocation *)

NoError                == [type |-> "", msg |-> "", attempt |-> 0]
Failed(o)              == [type |-> o.type, msg |-> o.msg, attempt |-> 0]
\* the exception raised by the n-th call of the engine entry point
EngineFailure(kind, n) == [type |-> kind, msg |-> "engine", attempt |-> n]

Step(name, ok) == [step |-> name, ok |-> ok]

TimeIndexInputs == ((0 - Margin)..0) \cup (12..(12 + Margin))

\* "23:30", "2:59", "25:00", "12:61", "noon" or "12-30", "12:xx", "12:30:00"
TimeTexts ==
    { <<Num(23), Num(30)>>, <<Num(2), Num(59)>>, <<Num(25), Num(0)>>,
      <<Num(12), Num(61)>>, <<NaN>>, <<Num(12), NaN>>, <<Num(12), Num(30), Num(0)>> }

TimeOptions ==
    { [time_index |-> NoIntArg, time |-> None] }
    \cup { [time_index |-> IntArg(n), time |-> None] : n \in TimeIndexInputs }
    \cup { [time_index |-> NoIntArg, time |-> Str(t)] : t \in TimeTexts }

GenderArgs ==
    { None, Str(<<>>), Str(<<"m", "a", "l", "e">>), Str(<<" ", "F", " ">>),
      Str(<<"o", "t", "h", "e", "r">>) }

MainArgs ==
    { Args(TRUE, "solar", None, None, NoIntArg, None, "ko-KR", FALSE, TRUE, FALSE) }
    \cup { Args(FALSE, c, d, t.time, t.time_index, g, "ko-KR", l, f, j) :
              c \in {"solar", "lunar"}, d \in {None, SelftestDate}, t \in TimeOptions,
              g \in GenderArgs, l \in BOOLEAN, f \in BOOLEAN, j \in BOOLEAN }

\* requests handed to create_chart by a caller other than main
Requests ==
    { ChartRequest(c, SelftestDate, t, g, "ko-KR", l, f) :
        c \in {"solar", "lunar", "hebrew"}, t \in TimeIndexInputs, g \in GenderArgs,
        l \in BOOLEAN, f \in BOOLEAN }

-----------------------------------------------------------------------------
(* One invocation: main, run_selftest or create_chart *)

IdleTime   == hour = 0 /\ minute = 0 /\ tResult = NotRun
IdleGender == gValue = None /\ gResult = NotRun

Init ==
    /\ IdleTime /\ IdleGender
    /\ entry \in {"main", "create_chart"}
    /\ IF entry = "main"
       THEN args \in MainArgs /\ req = NoReq /\ pc = "main"
       ELSE args = NoArgs /\ req \in Requests /\ pc = "create_chart"
    /\ astro = NoEngine
    /\ posargs = <<>>
    /\ kwargs = <<>>
    /\ idx = 0
    /\ exc = NoError
    /\ calls = <<>>
    /\ chart = NoChart
    /\ data = NoData
    /\ out = ""
    /\ trace = <<>>
    /\ stdout = ""
    /\ error = NoError

\* main, lines 79-106: parse the arguments and build the request
MainBuildRequest ==
    /\ pc = "main"
    /\ LET r == main_request(args) IN
        /\ trace' = Append(trace, Step("main", r.ok))
        /\ IF r.ok
           THEN req' = r.v /\ pc' = "create_chart" /\ error' = error
           ELSE req' = req /\ pc' = "exit" /\ error' = Failed(r)
    /\ UNCHANGED <<entry, args, astro, posargs, kwargs, idx, exc, calls, chart, data,
                   out, stdout>>
    /\ UNCHANGED <<timeVars, genderVars>>

\* create_chart, lines 69-111, up to its call of _call_astro
CreateChart ==
    /\ pc = "create_chart"
    /\ \E installed \in BOOLEAN, exported \in ExportedNames, e \in Engines :
        LET r == create_chart(req, installed, exported) IN
            IF r.ok
            THEN /\ astro' = [name |-> r.v.fn, accepted |-> e.accepted, body |-> e.body]
                 /\ posargs' = r.v.args
                 /\ kwargs' = r.v.kwargs
                 /\ pc' = "call_full"
                 /\ error' = error
            ELSE /\ pc' = "exit"
                 /\ error' = Failed(r)
                 /\ UNCHANGED <<astro, posargs, kwargs>>
    /\ trace' = Append(trace, Step("create_chart", pc' # "exit"))
    /\ UNCHANGED <<entry, args, req, idx, exc, calls, chart, data, out, stdout>>
    /\ UNCHANGED <<timeVars, genderVars>>

-----------------------------------------------------------------------------
(* src/ziwei.py: _call_astro, lines 41-66 *)

\* `except Exception as exc` in place of line 48
RetryableAny(o) == o # "ok"

\* `except TypeError as exc`, line 48: the failures of the full call that start the
\* retries
Retryable(o) == o = "TypeError"

\* `except TypeError`, lines 59 and 65: the failures of a retry that are swallowed
Swallowed(o) == o = "TypeError"

\* kw2 = dict(kwargs); kw2.pop(key, None), lines 55-56
Without(kw, key) == [k \in DOMAIN kw \ {key} |-> kw[k]]

\* a bare `raise` in place of line 66
ReraisedLast(first, last) == last

\* `raise exc`, line 66: what is raised once the positional-only call has failed too
Reraised(first, last) == first

\* the record of one call fn(*posargs, **kw) and of how it ended
Call(kw, o) == [args |-> posargs, kw |-> kw, outcome |-> o]

\* `return fn(...)`: the chart goes back to create_chart's caller
Returned(c) ==
    /\ chart' = c
    /\ pc' = IF entry = "create_chart" THEN "exit" ELSE "to_data"

\* lines 46-48: the full call
CallFull ==
    /\ pc = "call_full"
    /\ LET o == CallEngine(astro, kwargs) IN
        /\ calls' = Append(calls, Call(kwargs, o))
        /\ IF o = "ok"
           THEN (\E c \in Charts : Returned(c)) /\ UNCHANGED <<idx, exc, error>>
           ELSE IF Retryable(o)
           THEN /\ exc' = EngineFailure(o, 1)
                /\ idx' = 1
                /\ pc' = "retry"
                /\ UNCHANGED <<chart, error>>
           ELSE /\ error' = EngineFailure(o, 1)
                /\ pc' = "exit"
                /\ UNCHANGED <<idx, exc, chart>>
    /\ UNCHANGED <<entry, args, req, astro, posargs, kwargs, data, out, trace, stdout>>
    /\ UNCHANGED <<timeVars, genderVars>>

\* lines 52-54: a key of optional_keys the caller did not pass is skipped
RetrySkip ==
    /\ pc = "retry"
    /\ idx <= Len(optional_keys)
    /\ optional_keys[idx] \notin DOMAIN kwargs
    /\ idx' = idx + 1
    /\ UNCHANGED <<pc, entry, args, req, astro, posargs, kwargs, exc, calls, chart, data,
                   out, trace, stdout, error>>
    /\ UNCHANGED <<timeVars, genderVars>>

\* lines 55-60: the call without optional_keys[idx]
RetryCall ==
    /\ pc = "retry"
    /\ idx <= Len(optional_keys)
    /\ optional_keys[idx] \in DOMAIN kwargs
    /\ LET kw2 == Without(kwargs, optional_keys[idx])
           o   == CallEngine(astro, kw2)
       IN
        /\ calls' = Append(calls, Call(kw2, o))
        /\ IF o = "ok"
           THEN (\E c \in Charts : Returned(c)) /\ UNCHANGED <<idx, error>>
           ELSE IF Swallowed(o)
           THEN idx' = idx + 1 /\ UNCHANGED <<pc, chart, error>>
           ELSE /\ error' = EngineFailure(o, Len(calls) + 1)
                /\ pc' = "exit"
                /\ UNCHANGED <<idx, chart>>
    /\ UNCHANGED <<entry, args, req, astro, posargs, kwargs, exc, data, out, trace,
                   stdout>>
    /\ UNCHANGED <<timeVars, genderVars>>

\* lines 62-66: the positional-only call, after the loop
CallPositional ==
    /\ pc = "retry"
    /\ idx > Len(optional_keys)
    /\ LET o == CallEngine(astro, <<>>) IN
        /\ calls' = Append(calls, Call(<<>>, o))
        /\ IF o = "ok"
           THEN (\E c \in Charts : Returned(c)) /\ error' = error
           ELSE /\ pc' = "exit"
                /\ chart' = chart
                /\ error' = IF Swallowed(o)
                            THEN Reraised(exc, EngineFailure(o, Len(calls) + 1))
                            ELSE EngineFailure(o, Len(calls) + 1)
    /\ UNCHANGED <<entry, args, req, astro, posargs, kwargs, idx, exc, data, out, trace,
                   stdout>>
    /\ UNCHANGED <<timeVars, genderVars>>

-----------------------------------------------------------------------------
(* src/main.py: after create_chart *)

\* main without the try/except of lines 111-114
PropagateRenderFailure(o) == [pc |-> "exit", error |-> Failed(o)]

\* the handler of lines 113-114: where main goes when render_chart raised
OnRenderChartRaise(o) == [pc |-> "render_text", error |-> NoError]

\* main line 109, run_selftest line 69
ToData ==
    /\ pc = "to_data"
    /\ LET r == to_data(chart) IN
        /\ trace' = Append(trace, Step("to_data", r.ok))
        /\ IF r.ok
           THEN /\ data' = r.v
                /\ pc' = IF args.selftest THEN "selftest_asserts" ELSE "render_chart"
                /\ error' = error
           ELSE data' = data /\ pc' = "exit" /\ error' = Failed(r)
    /\ UNCHANGED <<entry, args, req, astro, posargs, kwargs, idx, exc, calls, chart, out,
                   stdout>>
    /\ UNCHANGED <<timeVars, genderVars>>

\* run_selftest, lines 71-76
SelftestAsserts ==
    /\ pc = "selftest_asserts"
    /\ trace' = Append(trace, Step("selftest_asserts", selftest_asserts(data)))
    /\ pc' = "exit"
    /\ IF selftest_asserts(data)
       THEN stdout' = "SELFTEST OK" /\ error' = error
       ELSE stdout' = stdout /\ error' = [type |-> "AssertionError", msg |-> "", attempt |-> 0]
    /\ UNCHANGED <<entry, args, req, astro, posargs, kwargs, idx, exc, calls, chart, data,
                   out>>
    /\ UNCHANGED <<timeVars, genderVars>>

\* main, lines 111-113: the primary renderer, inside the try
RenderChart ==
    /\ pc = "render_chart"
    /\ LET r == render_chart(chart, args.language) IN
        /\ trace' = Append(trace, Step("render_chart", r.ok))
        /\ IF r.ok
           THEN out' = r.v /\ pc' = "write_stdout" /\ error' = error
           ELSE /\ out' = out
                /\ pc' = OnRenderChartRaise(r).pc
                /\ error' = OnRenderChartRaise(r).error
    /\ UNCHANGED <<entry, args, req, astro, posargs, kwargs, idx, exc, calls, chart, data,
                   stdout>>
    /\ UNCHANGED <<timeVars, genderVars>>

\* main, line 114: the fallback renderer, inside the except
RenderText ==
    /\ pc = "render_text"
    /\ LET r == render_text(data) IN
        /\ trace' = Append(trace, Step("render_text", r.ok))
        /\ IF r.ok
           THEN out' = r.v /\ pc' = "write_stdout" /\ error' = error
           ELSE out' = out /\ pc' = "exit" /\ error' = Failed(r)
    /\ UNCHANGED <<entry, args, req, astro, posargs, kwargs, idx, exc, calls, chart, data,
                   stdout>>
    /\ UNCHANGED <<timeVars, genderVars>>

\* main, line 116, and the test of line 118
WriteStdout ==
    /\ pc = "write_stdout"
    /\ stdout' = out
    /\ trace' = Append(trace, Step("write_stdout", TRUE))
    /\ pc' = IF args.json_path THEN "write_json" ELSE "exit"
    /\ UNCHANGED <<entry, args, req, astro, posargs, kwargs, idx, exc, calls, chart, data,
                   out, error>>
    /\ UNCHANGED <<timeVars, genderVars>>

\* main, lines 118-121
WriteJson ==
    /\ pc = "write_json"
    /\ \E ioOk \in BOOLEAN :
        LET r == write_json(data, ioOk) IN
            /\ trace' = Append(trace, Step("write_json", r.ok))
            /\ error' = IF r.ok THEN error ELSE Failed(r)
    /\ pc' = "exit"
    /\ UNCHANGED <<entry, args, req, astro, posargs, kwargs, idx, exc, calls, chart, data,
                   out, stdout>>
    /\ UNCHANGED <<timeVars, genderVars>>

Next ==
    \/ MainBuildRequest
    \/ CreateChart
    \/ CallFull
    \/ RetrySkip
    \/ RetryCall
    \/ CallPositional
    \/ ToData
    \/ SelftestAsserts
    \/ RenderChart
    \/ RenderText
    \/ WriteStdout
    \/ WriteJson

Spec == Init /\ [][Next]_vars

IdleCli ==
    /\ pc = "idle" /\ entry = "none" /\ args = NoArgs /\ req = NoReq
    /\ astro = NoEngine /\ posargs = <<>> /\ kwargs = <<>> /\ idx = 0
    /\ exc = NoError /\ calls = <<>> /\ chart = NoChart /\ data = NoData
    /\ out = "" /\ trace = <<>> /\ stdout = "" /\ error = NoError

-----------------------------------------------------------------------------
(* time_to_index applied to every hour and minute in and around the valid ranges *)

Hours   == (0 - Margin)..(23 + Margin)
Minutes == (0 - Margin)..(59 + Margin)

InitTime ==
    /\ hour \in Hours /\ minute \in Minutes /\ tResult = NotRun
    /\ IdleGender /\ IdleCli

TimeToIndex ==
    /\ ~Ran(tResult)
    /\ tResult' = time_to_index(hour, minute)
    /\ UNCHANGED <<hour, minute, genderVars, cliVars>>

NextTime == TimeToIndex

SpecTime == InitTime /\ [][NextTime]_vars

-----------------------------------------------------------------------------
(* normalize_gender applied to None, to every string of at most MaxLen characters
   of GenderAlphabet, and to the example strings *)

GenderAlphabet == {"m", "M", "a", "A", "n", "N", "f", "F", " "}

RECURSIVE StringsUpTo(_)
StringsUpTo(n) ==
    IF n = 0 THEN { <<>> }
    ELSE LET shorter == StringsUpTo(n - 1) IN
        shorter \cup { Append(s, c) : s \in shorter, c \in GenderAlphabet }

GenderExamples ==
    male \cup female \cup
    { <<"M", "a", "l", "e">>, <<" ", "M", "A", "L", "E", " ">>, <<"M", "A", "N">>,
      <<"F", "e", "m", "a", "l", "e">>, <<"\t", "W", "o", "m", "a", "n", "\n">>,
      <<"o", "t", "h", "e", "r">>, <<"m", "a", " ", "l", "e">>, <<"m", "a", "l">>,
      <<" ", "U+B0A8", "U+C790", " ">>, <<"U+C5EC", "U+C131", "\n">> }

GenderInputs ==
    {None} \cup {Str(s) : s \in StringsUpTo(MaxLen)} \cup {Str(s) : s \in GenderExamples}

InitGender ==
    /\ gValue \in GenderInputs /\ gResult = NotRun
    /\ IdleTime /\ IdleCli

NormalizeGender ==
    /\ ~Ran(gResult)
    /\ gResult' = normalize_gender(gValue)
    /\ UNCHANGED <<gValue, timeVars, cliVars>>

NextGender == NormalizeGender

SpecGender == InitGender /\ [][NextGender]_vars

-----------------------------------------------------------------------------
(* Properties of time_to_index, under SpecTime *)

ValidClock == hour \in 0..23 /\ minute \in 0..59

\* C4: for every hour in 0..23 and minute in 0..59, time_to_index returns 0 when the
\* hour is 23, 12 when it is 0 and ((hour - 1) div 2) + 1 otherwise; the result is in
\* 0..12 and is the same for every minute of the hour.
C4_BucketOfHour ==
    (Ran(tResult) /\ ValidClock) =>
        /\ tResult.ok
        /\ tResult.v = (IF hour = 23 THEN 0
                        ELSE IF hour = 0 THEN 12
                        ELSE ((hour - 1) \div 2) + 1)
        /\ tResult.v \in 0..12
        /\ \A m \in 0..59 : Returns(time_to_index(hour, m), tResult.v)

C4_Witness == Ran(tResult) /\ hour = 0 /\ minute = 59 /\ Returns(tResult, 12)

\* C5 as claimed: for any valid minute the bucket is 1 for hour 1, 2 for hour 2 and
\* 11 for hour 22.
C5_AsClaimed ==
    (Ran(tResult) /\ ValidClock) =>
        /\ hour = 1 => Returns(tResult, 1)
        /\ hour = 2 => Returns(tResult, 2)
        /\ hour = 22 => Returns(tResult, 11)

\* C5 as amended: for any valid minute the bucket is 1 for hour 1, 1 for hour 2 (the
\* bucket 01:00-02:59 holds both hours) and 11 for hour 22.
C5_BucketsOfHours1And2And22 ==
    (Ran(tResult) /\ ValidClock) =>
        /\ hour = 1 => Returns(tResult, 1)
        /\ hour = 2 => Returns(tResult, 1)
        /\ hour = 22 => Returns(tResult, 11)

C5_Witness == Ran(tResult) /\ hour = 2 /\ minute = 59 /\ Returns(tResult, 1)

-----------------------------------------------------------------------------
(* Properties of normalize_gender, under SpecGender *)

\* a and b are equal up to the case of their characters
CaseEq(a, b) ==
    /\ Len(a) = Len(b)
    /\ \A k \in 1..Len(a) :
        \/ a[k] = b[k]
        \/ \E i \in 1..Len(UpperCase) : {a[k], b[k]} = {UpperCase[i], LowerCase[i]}

\* s is token t in some case, between leading and trailing whitespace
FormOf(s, t) ==
    \E i \in 1..(Len(s) + 1) :
        /\ i + Len(t) - 1 <= Len(s)
        /\ \A k \in 1..(i - 1) : s[k] \in Whitespace
        /\ \A k \in (i + Len(t))..Len(s) : s[k] \in Whitespace
        /\ CaseEq(SubSeq(s, i, i + Len(t) - 1), t)

MaleForm(s)   == \E t \in male : FormOf(s, t)
FemaleForm(s) == \E t \in female : FormOf(s, t)

\* C8: normalize_gender ignores case and surrounding whitespace and has two results:
\* every form of a male token gives the male token, every form of a female token the
\* female token; any other string fails, and None fails with another error than an
\* unrecognized string does.
C8_GenderNormalized ==
    Ran(gResult) =>
        /\ MaleToken # FemaleToken
        /\ GenderRequiredMsg # GenderUnknownMsg
        /\ IF gValue = None THEN Raises(gResult, "ValueError", GenderRequiredMsg)
           ELSE IF MaleForm(gValue.v) THEN Returns(gResult, MaleToken)
           ELSE IF FemaleForm(gValue.v) THEN Returns(gResult, FemaleToken)
           ELSE Raises(gResult, "ValueError", GenderUnknownMsg)

C8_Witness ==
    /\ gValue = Str(<<" ", "M", "A", "L", "E", " ">>)
    /\ Returns(gResult, MaleToken)

-----------------------------------------------------------------------------
(* Properties of one invocation, under Spec *)

\* the keyword names create_chart offered, and those the i-th call carried
Offered == DOMAIN kwargs
KwOf(i) == DOMAIN calls[i].kw

\* the i-th call is the retry without keyword k
Omits(i, k) == k \in Offered /\ KwOf(i) = Offered \ {k}

LeapKeys == {"fix_leap", "fixLeap", "is_leap_month", "isLeapMonth"}

\* the optional parameters of a request, each with the names it is offered under
Parameters == { {"language"}, {"fix_leap", "fixLeap"}, {"is_leap_month", "isLeapMonth"} }

\* the full call, one retry per offered keyword and the positional-only call were made
AllAttemptsMade == calls # <<>> /\ Len(calls) = Cardinality(Offered) + 2

Succeeded == calls # <<>> /\ calls[Len(calls)].outcome = "ok"

\* C1 as claimed: among the single-removal retries, every retry that omits a
\* leap-related keyword is made before the retry that omits language.
C1_AsClaimed ==
    \A i \in 2..Len(calls), j \in 2..Len(calls) :
        (Omits(i, "language") /\ \E k \in LeapKeys : Omits(j, k)) => j < i

C3_AsClaimed == Len(calls) <= 1

\* C3 as amended: the entry point is called once, and again only after a call raised
\* TypeError: at most once per offered keyword and once positional-only, so at most
\* 5 times for a solar request and 7 times for a lunar one.
C3_CallsBounded ==
    /\ Len(calls) <= Cardinality(Offered) + 2
    /\ req.calendar = "solar" => Len(calls) <= 5
    /\ req.calendar = "lunar" => Len(calls) <= 7
    /\ \A i \in 1..(Len(calls) - 1) : calls[i].outcome = "TypeError"

C3_Witness == entry = "main" /\ pc = "exit" /\ Len(calls) = 7

\* the request fails one of create_chart's checks
Invalid(r) ==
    \/ r.time_index \notin 0..12
    \/ r.gender = None
    \/ ~(MaleForm(r.gender.v) \/ FemaleForm(r.gender.v))
    \/ r.calendar \notin {"solar", "lunar"}

\* C6: for an invalid request (time index outside 0..12, unaccepted gender, calendar
\* other than solar or lunar) create_chart ends in an error and the engine entry
\* point is never called.
C6_InvalidRequestNeverCalls ==
    (req.calendar # "" /\ Invalid(req)) =>
        /\ calls = <<>>
        /\ chart = NoChart
        /\ pc \in {"create_chart", "exit"}
        /\ pc = "exit" => error.type \in {"ValueError", "RuntimeError"}

C6_Witness ==
    /\ pc = "exit" /\ req.calendar = "hebrew" /\ req.time_index = 12
    /\ req.gender = Str(<<" ", "F", " ">>)
    /\ error.msg = "unsupported calendar" /\ calls = <<>>

RenderChartRaised == \E i \in 1..Len(trace) : trace[i] = Step("render_chart", FALSE)
RenderTextRan     == \E i \in 1..Len(trace) : trace[i].step = "render_text"
RenderTextReturned == \E i \in 1..Len(trace) : trace[i] = Step("render_text", TRUE)
JsonStepRan       == \E i \in 1..Len(trace) : trace[i].step = "write_json"

\* render_text runs exactly when render_chart raised, and right after it
FallbackIffPrimaryRaised ==
    /\ \A i \in 1..Len(trace) :
        trace[i].step = "render_text" => i > 1 /\ trace[i - 1] = Step("render_chart", FALSE)
    /\ RenderChartRaised => (RenderTextRan \/ pc = "render_text")
    /\ error.attempt > 0 => ~RenderTextRan

\* the invocation went on after the fallback: its text was written, the JSON step ran
\* if asked for, and only the JSON step can have failed
WentOnAfterFallback ==
    /\ stdout = "canonical"
    /\ args.json_path => JsonStepRan
    /\ error.type \in {"", "OSError"}

\* C7 as claimed: render_text runs if and only if render_chart raised; a failure of
\* render_chart never fails the invocation; a failure of the engine call, of to_data
\* or of write_json never runs render_text.
C7_AsClaimed ==
    /\ FallbackIffPrimaryRaised
    /\ (pc = "exit" /\ RenderChartRaised) => WentOnAfterFallback

\* C7 as amended: the same, but a failure of render_chart leaves the invocation
\* running only if render_text returns; when render_text raises too, the invocation
\* fails with its exception.
C7_FallbackOnlyAfterRenderFailure ==
    /\ FallbackIffPrimaryRaised
    /\ (pc = "exit" /\ RenderChartRaised /\ RenderTextReturned) => WentOnAfterFallback
    /\ (pc = "exit" /\ RenderChartRaised /\ ~RenderTextReturned)
         => error.type = "AttributeError"

C7_Witness ==
    /\ pc = "exit" /\ RenderChartRaised /\ stdout = "canonical"
    /\ \E i \in 1..Len(trace) : trace[i] = Step("write_json", FALSE)

\* C9 as claimed: every retry before the positional-only call omits one optional
\* parameter under every name it is offered and carries all the others; the
\* positional-only call comes after a failed retry for each parameter.
C9_AsClaimed ==
    \A i \in 2..Len(calls) :
        IF KwOf(i) = {}
        THEN /\ i = Len(calls)
             /\ \A P \in Parameters :
                 P \cap Offered # {} =>
                     \E j \in 2..(i - 1) :
                         KwOf(j) = Offered \ P /\ calls[j].outcome # "ok"
        ELSE \E P \in Parameters : P \cap Offered # {} /\ KwOf(i) = Offered \ P

\* C10 as claimed: when the entry point accepts language, the call whose result is
\* returned carries language; for a lunar request against an entry point accepting
\* just language, fix_leap and is_leap_month it also carries the request's
\* is_leap_month.
C10_AsClaimed ==
    (Succeeded /\ "language" \in astro.accepted) =>
        /\ "language" \in KwOf(Len(calls))
        /\ (req.calendar = "lunar"
             /\ astro.accepted = {"language", "fix_leap", "is_leap_month"})
            => /\ "is_leap_month" \in KwOf(Len(calls))
               /\ calls[Len(calls)].kw["is_leap_month"] = PyBool(req.is_leap_month)

====
